---- MODULE Spec2Model ----
(***************************************************************************)
(* Model of 0x02-redis_basic/exercise.py: the Cache facade over a Redis    *)
(* store, its two decorators (track_calls, log_call_details) and the       *)
(* reporter display_call_history.                                          *)
(*                                                                         *)
(* Text (Python str) is a sequence of Unicode code points; bytes is a      *)
(* sequence of numbers 0..255.  The Redis client serialises every value it *)
(* sends to bytes and returns bytes; those conversions are modelled by     *)
(* what they do (UTF-8, decimal notation, repr), not as the identity.      *)
(***************************************************************************)
EXTENDS Integers, Sequences, FiniteSets, TLC

VARIABLES store, issued, calls, epoch, ret, out, values, threads, lost

vars == <<store, issued, calls, epoch, ret, out, values, threads, lost>>

(***************************************************************************)
(* Bytes and text conversions                                              *)
(***************************************************************************)

\* One code point as UTF-8 (str.encode('utf-8') of one character).
Utf8EncodeChar(c) ==
    IF c < 128 THEN <<c>>
    ELSE IF c < 2048 THEN <<192 + (c \div 64), 128 + (c % 64)>>
    ELSE IF c < 65536
         THEN <<224 + (c \div 4096), 128 + ((c \div 64) % 64), 128 + (c % 64)>>
         ELSE <<240 + (c \div 262144), 128 + ((c \div 4096) % 64),
                128 + ((c \div 64) % 64), 128 + (c % 64)>>

RECURSIVE Utf8Encode(_)
Utf8Encode(s) ==
    IF s = <<>> THEN <<>> ELSE Utf8EncodeChar(Head(s)) \o Utf8Encode(Tail(s))

Failed == [ok |-> FALSE, val |-> <<>>]

IsCont(b) == b >= 128 /\ b < 192

\* Length of the UTF-8 sequence a lead byte announces, 0 for an invalid lead.
Utf8SeqLen(b0) ==
    IF b0 < 128 THEN 1
    ELSE IF b0 >= 194 /\ b0 < 224 THEN 2
    ELSE IF b0 >= 224 /\ b0 < 240 THEN 3
    ELSE IF b0 >= 240 /\ b0 < 245 THEN 4
    ELSE 0

Utf8CodePoint(b, n) ==
    IF n = 1 THEN b[1]
    ELSE IF n = 2 THEN (b[1] - 192) * 64 + (b[2] - 128)
    ELSE IF n = 3 THEN (b[1] - 224) * 4096 + (b[2] - 128) * 64 + (b[3] - 128)
    ELSE (b[1] - 240) * 262144 + (b[2] - 128) * 4096
         + (b[3] - 128) * 64 + (b[4] - 128)

\* bytes.decode('utf-8'), strict: [ok, val]; ok = FALSE is UnicodeDecodeError.
RECURSIVE Utf8Decode(_)
Utf8Decode(b) ==
    IF b = <<>> THEN [ok |-> TRUE, val |-> <<>>]
    ELSE LET n == Utf8SeqLen(b[1]) IN
         IF n = 0 \/ Len(b) < n THEN Failed
         ELSE IF \E i \in 2..n : ~IsCont(b[i]) THEN Failed
         ELSE LET c == Utf8CodePoint(b, n)
                  rest == Utf8Decode(SubSeq(b, n + 1, Len(b)))
              IN IF \/ (n = 3 /\ c < 2048)
                    \/ (c >= 55296 /\ c < 57344)
                    \/ (n = 4 /\ (c < 65536 \/ c > 1114111))
                    \/ ~rest.ok
                 THEN Failed
                 ELSE [ok |-> TRUE, val |-> <<c>> \o rest.val]

RECURSIVE NatToText(_)
NatToText(n) ==
    IF n < 10 THEN <<48 + n>> ELSE NatToText(n \div 10) \o <<48 + (n % 10)>>

\* repr(n) of an int: decimal digits, '-' in front of a negative number.
IntRepr(n) == IF n < 0 THEN <<45>> \o NatToText(-n) ELSE NatToText(n)

\* repr(x) of a float that is a multiple of one half, h = 2*x:
\* 1.5 -> "1.5", -2.0 -> "-2.0", 0.5 -> "0.5".
FloatRepr(h) ==
    LET a == IF h < 0 THEN -h ELSE h IN
    (IF h < 0 THEN <<45>> ELSE <<>>) \o NatToText(a \div 2)
        \o <<46>> \o (IF a % 2 = 0 THEN <<48>> ELSE <<53>>)

HexDigit(d) == IF d < 10 THEN 48 + d ELSE 87 + d

\* \xNN
HexEscape(b) == <<92, 120, HexDigit(b \div 16), HexDigit(b % 16)>>

Contains(s, c) == \E i \in 1..Len(s) : s[i] = c

\* The quote repr() chooses: " when the text holds ' and no ", else '.
ReprQuote(s) == IF Contains(s, 39) /\ ~Contains(s, 34) THEN 34 ELSE 39

\* One character inside repr(str).
StrReprChar(c, q) ==
    IF c = 92 THEN <<92, 92>>
    ELSE IF c = q THEN <<92, c>>
    ELSE IF c = 9 THEN <<92, 116>>
    ELSE IF c = 10 THEN <<92, 110>>
    ELSE IF c = 13 THEN <<92, 114>>
    ELSE IF c < 32 \/ (c >= 127 /\ c <= 160) \/ c = 173 THEN HexEscape(c)
    ELSE <<c>>

\* One byte inside repr(bytes).
BytesReprChar(b, q) ==
    IF b = 92 THEN <<92, 92>>
    ELSE IF b = q THEN <<92, b>>
    ELSE IF b = 9 THEN <<92, 116>>
    ELSE IF b = 10 THEN <<92, 110>>
    ELSE IF b = 13 THEN <<92, 114>>
    ELSE IF b < 32 \/ b >= 127 THEN HexEscape(b)
    ELSE <<b>>

RECURSIVE StrReprBody(_, _)
StrReprBody(s, q) ==
    IF s = <<>> THEN <<>>
    ELSE StrReprChar(Head(s), q) \o StrReprBody(Tail(s), q)

RECURSIVE BytesReprBody(_, _)
BytesReprBody(b, q) ==
    IF b = <<>> THEN <<>>
    ELSE BytesReprChar(Head(b), q) \o BytesReprBody(Tail(b), q)

\* repr(s) of a str: 'foo'
StrRepr(s) ==
    LET q == ReprQuote(s) IN <<q>> \o StrReprBody(s, q) \o <<q>>

\* repr(b) of bytes, which is also format(b, ''): b'foo'
BytesRepr(b) ==
    LET q == ReprQuote(b) IN <<98, q>> \o BytesReprBody(b, q) \o <<q>>

IsSpace(b) == b \in {9, 10, 11, 12, 13, 32}
IsDigit(b) == b >= 48 /\ b <= 57

RECURSIVE LStrip(_)
LStrip(b) == IF b # <<>> /\ IsSpace(Head(b)) THEN LStrip(Tail(b)) ELSE b

RECURSIVE RStrip(_)
RStrip(b) ==
    IF b # <<>> /\ IsSpace(b[Len(b)]) THEN RStrip(SubSeq(b, 1, Len(b) - 1)) ELSE b

\* Decimal digits, single underscores allowed between digits.
DigitsOk(d) ==
    /\ d # <<>>
    /\ IsDigit(d[1])
    /\ IsDigit(d[Len(d)])
    /\ \A i \in 1..Len(d) : IsDigit(d[i]) \/ (d[i] = 95 /\ d[i - 1] # 95)

RECURSIVE DigitsVal(_, _)
DigitsVal(d, acc) ==
    IF d = <<>> THEN acc
    ELSE IF Head(d) = 95 THEN DigitsVal(Tail(d), acc)
    ELSE DigitsVal(Tail(d), acc * 10 + (Head(d) - 48))

\* int(b) of bytes: [ok, val]; ok = FALSE is ValueError.
ParseInt(b) ==
    LET t == RStrip(LStrip(b))
        signed == t # <<>> /\ t[1] \in {43, 45}
        d == IF signed THEN Tail(t) ELSE t
    IN IF ~DigitsOk(d) THEN [ok |-> FALSE, val |-> 0]
       ELSE [ok |-> TRUE,
             val |-> IF signed /\ t[1] = 45 THEN -DigitsVal(d, 0)
                     ELSE DigitsVal(d, 0)]

(***************************************************************************)
(* Python values and the client's serialisation                            *)
(***************************************************************************)

PyStr(s) == [t |-> "str", v |-> s]
PyBytes(b) == [t |-> "bytes", v |-> b]
PyInt(n) == [t |-> "int", v |-> n]
\* A float that is a multiple of one half: PyFloat(h) is the number h / 2.
PyFloat(h) == [t |-> "float", v |-> h]
PyNone == [t |-> "none", v |-> 0]

\* The values the client can serialise; any other raises DataError.
Encodable(x) == x.t \in {"str", "bytes", "int", "float"}

\* The bytes the client sends for a value: bytes as they are, str as UTF-8,
\* int and float as repr(value).encode().
Encode(x) ==
    CASE x.t = "bytes" -> x.v
      [] x.t = "str" -> Utf8Encode(x.v)
      [] x.t = "int" -> Utf8Encode(IntRepr(x.v))
      [] x.t = "float" -> Utf8Encode(FloatRepr(x.v))

\* repr(x)
PyRepr(x) ==
    CASE x.t = "str" -> StrRepr(x.v)
      [] x.t = "bytes" -> BytesRepr(x.v)
      [] x.t = "int" -> IntRepr(x.v)
      [] x.t = "float" -> FloatRepr(x.v)
      [] x.t = "none" -> <<78, 111, 110, 101>>

\* str(args) of the tuple of positional arguments: "()" or "(x,)".
StrOfArgs(args) ==
    IF args = <<>> THEN <<40, 41>>
    ELSE <<40>> \o PyRepr(args[1]) \o <<44, 41>>

(***************************************************************************)
(* Names                                                                   *)
(***************************************************************************)

\* method.__qualname__ of a method of class Cache: "Cache." + name
QualName(name) ==
    <<67, 97, 99, 104, 101, 46>> \o
    (CASE name = "save" -> <<115, 97, 118, 101>>
       [] name = "retrieve" -> <<114, 101, 116, 114, 105, 101, 118, 101>>)

\* f'{method.__qualname__}:inputs'
InputKey(name) == QualName(name) \o <<58, 105, 110, 112, 117, 116, 115>>

\* f'{method.__qualname__}:outputs'
OutputKey(name) == QualName(name) \o <<58, 111, 117, 116, 112, 117, 116, 115>>

\* A store key as the client sends it.
KeyBytes(k) == Utf8Encode(k)

CounterKey == KeyBytes(QualName("save"))
InputsKey == KeyBytes(InputKey("save"))
OutputsKey == KeyBytes(OutputKey("save"))

(***************************************************************************)
(* Bounds                                                                  *)
(***************************************************************************)

\* Number of save calls in one run.
MaxCalls == 2

\* The values uuid4 can return in one run: one for each save call.
Uuids == 1..MaxCalls

\* str(uuid.uuid4()), abbreviated to four characters ("01-4"): hexadecimal
\* digits and dashes, one text per uuid.
UuidStr(u) == <<HexDigit(u \div 16), HexDigit(u % 16), 45, 52>>

\* "nonexistent-key"
NonexistentKey ==
    <<110, 111, 110, 101, 120, 105, 115, 116, 101, 110, 116, 45, 107, 101, 121>>

\* The data save is called with in one run: each run draws its data from one
\* of these sets ("foo" and "", "e-acute" and b"\xff", 0 and -5, 1.5 and None).
Universes ==
    { {PyStr(<<102, 111, 111>>), PyStr(<<>>)},
      {PyStr(<<233>>), PyBytes(<<255>>)},
      {PyInt(0), PyInt(-5)},
      {PyFloat(3), PyNone} }

\* The keys the read operations are called with: the keys that the save calls
\* in the log c have returned to the caller, and a key that never was one.
ReadKeys(c) ==
    {c[i].val.v : i \in {j \in 1..Len(c) : c[j].ok}} \cup {NonexistentKey}

\* The store call of save at which the connection fails, if any: the counter
\* increment, the write of the data, or the append to the output history.
FailPoints == {"none", "incr", "set", "rpush_outputs"}

(***************************************************************************)
(* The store (Redis): a map from key bytes to a typed entry                *)
(***************************************************************************)

EmptyStore == [k \in {} |-> 0]

StringEntry(b) == [type |-> "string", val |-> b]
ListEntry(l) == [type |-> "list", val |-> l]

Put(s, k, e) == [x \in (DOMAIN s) \cup {k} |-> IF x = k THEN e ELSE s[x]]

\* Outcome of a call: the store after it, and what it returned or raised.
Return(s, v) == [ok |-> TRUE, store |-> s, val |-> v, exc |-> "none"]
Raise(s, e) == [ok |-> FALSE, store |-> s, val |-> PyNone, exc |-> e]

\* EXISTS key
RedisExists(s, k) == k \in DOMAIN s

\* GET key: the bytes, None for a missing key, an error for a list.
RedisGet(s, k) ==
    IF k \notin DOMAIN s THEN Return(s, PyNone)
    ELSE IF s[k].type = "string" THEN Return(s, PyBytes(s[k].val))
    ELSE Raise(s, "ResponseError")

\* SET key value
RedisSet(s, k, x) ==
    IF ~Encodable(x) THEN Raise(s, "DataError")
    ELSE Return(Put(s, k, StringEntry(Encode(x))), PyNone)

\* A variant that adds 2.
RedisIncr_ByTwo(s, k) ==
    IF k \notin DOMAIN s
    THEN Return(Put(s, k, StringEntry(Utf8Encode(IntRepr(2)))), PyInt(2))
    ELSE IF s[k].type # "string" \/ ~ParseInt(s[k].val).ok
    THEN Raise(s, "ResponseError")
    ELSE LET n == ParseInt(s[k].val).val + 2
         IN Return(Put(s, k, StringEntry(Utf8Encode(IntRepr(n)))), PyInt(n))

\* INCR key: a missing key counts as 0.
RedisIncr(s, k) ==
    IF k \notin DOMAIN s
    THEN Return(Put(s, k, StringEntry(Utf8Encode(IntRepr(1)))), PyInt(1))
    ELSE IF s[k].type # "string" \/ ~ParseInt(s[k].val).ok
    THEN Raise(s, "ResponseError")
    ELSE LET n == ParseInt(s[k].val).val + 1
         IN Return(Put(s, k, StringEntry(Utf8Encode(IntRepr(n)))), PyInt(n))

\* A variant that writes the list anew: the last push is all it holds.
RedisRpush_Replace(s, k, x) ==
    IF ~Encodable(x) THEN Raise(s, "DataError")
    ELSE IF k \notin DOMAIN s
    THEN Return(Put(s, k, ListEntry(<<Encode(x)>>)), PyInt(1))
    ELSE IF s[k].type # "list" THEN Raise(s, "ResponseError")
    ELSE Return(Put(s, k, ListEntry(<<Encode(x)>>)), PyInt(1))

\* A variant that pushes at the head of the list (LPUSH).
RedisRpush_AtHead(s, k, x) ==
    IF ~Encodable(x) THEN Raise(s, "DataError")
    ELSE IF k \notin DOMAIN s
    THEN Return(Put(s, k, ListEntry(<<Encode(x)>>)), PyInt(1))
    ELSE IF s[k].type # "list" THEN Raise(s, "ResponseError")
    ELSE Return(Put(s, k, ListEntry(<<Encode(x)>> \o s[k].val)),
                PyInt(Len(s[k].val) + 1))

\* RPUSH key value
RedisRpush(s, k, x) ==
    IF ~Encodable(x) THEN Raise(s, "DataError")
    ELSE IF k \notin DOMAIN s
    THEN Return(Put(s, k, ListEntry(<<Encode(x)>>)), PyInt(1))
    ELSE IF s[k].type # "list" THEN Raise(s, "ResponseError")
    ELSE Return(Put(s, k, ListEntry(Append(s[k].val, Encode(x)))),
                PyInt(Len(s[k].val) + 1))

\* LRANGE key 0 -1
RedisLrange(s, k) ==
    IF k \notin DOMAIN s THEN Return(s, <<>>)
    ELSE IF s[k].type # "list" THEN Raise(s, "ResponseError")
    ELSE Return(s, s[k].val)

\* A variant that deletes nothing.
RedisFlushdb_KeepsAll(s) == s

\* FLUSHDB
RedisFlushdb(s) == EmptyStore

(***************************************************************************)
(* The facade and its decorators                                           *)
(***************************************************************************)

ConnectionFails(s) == Raise(s, "ConnectionError")

\* A variant that stores every value under one and the same key.
save_FixedKey(s, data, u, fail) ==
    LET key == UuidStr(1)
        r == IF fail = "set" THEN ConnectionFails(s)
             ELSE RedisSet(s, KeyBytes(key), data)
    IN IF ~r.ok THEN r ELSE Return(r.store, PyStr(key))

\* Cache.save, undecorated: a uuid4 key, SET key data, return the key.
\* u is the value uuid4 returns.
save(s, data, u, fail) ==
    LET key == UuidStr(u)
        r == IF fail = "set" THEN ConnectionFails(s)
             ELSE RedisSet(s, KeyBytes(key), data)
    IN IF ~r.ok THEN r ELSE Return(r.store, PyStr(key))

\* A variant that calls the method without counting the call.
track_calls_NoIncr(s, data, u, fail) ==
    IF fail = "incr" THEN ConnectionFails(s) ELSE save(s, data, u, fail)

\* track_calls.wrapper around save: INCR of the qualified name, then the method.
\* self._redis_instance is the redis.Redis that __init__ made, so the
\* isinstance tests of both wrappers hold.
track_calls(s, data, u, fail) ==
    LET r == IF fail = "incr" THEN ConnectionFails(s)
             ELSE RedisIncr(s, CounterKey)
    IN IF ~r.ok THEN r ELSE save(r.store, data, u, fail)

\* log_call_details.wrapper around track_calls.wrapper: RPUSH of str(args),
\* the method, RPUSH of the result, and the result returned.
log_call_details(s, args, u, fail) ==
    LET r1 == RedisRpush(s, InputsKey, PyStr(StrOfArgs(args)))
    IN IF ~r1.ok THEN r1
       ELSE LET result == track_calls(r1.store, args[1], u, fail) IN
            IF ~result.ok THEN result
            ELSE LET r3 == IF fail = "rpush_outputs"
                           THEN ConnectionFails(result.store)
                           ELSE RedisRpush(result.store, OutputsKey, result.val)
                 IN IF ~r3.ok THEN Raise(r3.store, r3.exc)
                    ELSE Return(r3.store, result.val)

\* Whether a save call with this failure point gets as far as uuid4().
ReachesUuid4(fail) == fail # "incr"

\* A variant that decodes as Latin-1: one character for each byte.
DecodeUtf8_Latin1(s, x) ==
    IF x.t # "bytes" THEN Raise(s, "AttributeError") ELSE Return(s, PyStr(x.v))

\* lambda x: x.decode('utf-8')
DecodeUtf8(s, x) ==
    IF x.t # "bytes" THEN Raise(s, "AttributeError")
    ELSE LET d == Utf8Decode(x.v)
         IN IF d.ok THEN Return(s, PyStr(d.val))
            ELSE Raise(s, "UnicodeDecodeError")

\* lambda x: int(x)
ToInt(s, x) ==
    IF x.t # "bytes" THEN Raise(s, "TypeError")
    ELSE LET p == ParseInt(x.v)
         IN IF p.ok THEN Return(s, PyInt(p.val)) ELSE Raise(s, "ValueError")

\* A variant that decodes the value when no transform is given.
retrieve_Decoded(s, key, transform) ==
    LET value == RedisGet(s, KeyBytes(key)) IN
    IF ~value.ok THEN value
    ELSE CASE transform \in {"none", "decode"} -> DecodeUtf8(s, value.val)
           [] transform = "int" -> ToInt(s, value.val)

\* A variant that raises for a key the store does not hold.
retrieve_MissingRaises(s, key, transform) ==
    LET value == RedisGet(s, KeyBytes(key)) IN
    IF ~value.ok THEN value
    ELSE IF value.val = PyNone THEN Raise(s, "KeyError")
    ELSE CASE transform = "none" -> value
           [] transform = "decode" -> DecodeUtf8(s, value.val)
           [] transform = "int" -> ToInt(s, value.val)

\* A variant that is counted as save is: INCR of its qualified name first.
retrieve_Counted(s, key, transform) ==
    LET counted == RedisIncr(s, KeyBytes(QualName("retrieve")))
        value == RedisGet(counted.store, KeyBytes(key))
    IN IF ~counted.ok THEN counted
       ELSE IF ~value.ok THEN value
       ELSE CASE transform = "none" -> value
              [] transform = "decode" -> DecodeUtf8(counted.store, value.val)
              [] transform = "int" -> ToInt(counted.store, value.val)

\* A variant that applies the transform to a value only, not to None.
retrieve_SkipsMissing(s, key, transform) ==
    LET value == RedisGet(s, KeyBytes(key)) IN
    IF ~value.ok \/ value.val = PyNone THEN value
    ELSE CASE transform = "none" -> value
           [] transform = "decode" -> DecodeUtf8(s, value.val)
           [] transform = "int" -> ToInt(s, value.val)

\* Cache.retrieve: GET, then the transform if one is given.
retrieve(s, key, transform) ==
    LET value == RedisGet(s, KeyBytes(key)) IN
    IF ~value.ok THEN value
    ELSE CASE transform = "none" -> value
           [] transform = "decode" -> DecodeUtf8(s, value.val)
           [] transform = "int" -> ToInt(s, value.val)

retrieve_str(s, key) == retrieve(s, key, "decode")

\* A variant that decodes instead of parsing.
retrieve_int_AsStr(s, key) == retrieve(s, key, "decode")

retrieve_int(s, key) == retrieve(s, key, "int")

(***************************************************************************)
(* The reporter                                                            *)
(***************************************************************************)

\* f'{method_name} was called {call_count} times:'
HeaderLine(method_name, call_count) ==
    method_name \o <<32, 119, 97, 115, 32, 99, 97, 108, 108, 101, 100, 32>>
        \o IntRepr(call_count) \o <<32, 116, 105, 109, 101, 115, 58>>

\* A variant that prints the output decoded, without the b'' of bytes.
PairLine_Plain(method_name, inp, outp) ==
    method_name \o <<40, 42>> \o inp \o <<41, 32, 45, 62, 32>>
        \o Utf8Decode(outp).val

\* f'{method_name}(*{inp.decode("utf-8")}) -> {outp}', inp already decoded
PairLine(method_name, inp, outp) ==
    method_name \o <<40, 42>> \o inp \o <<41, 32, 45, 62, 32>> \o BytesRepr(outp)

\* A variant that refuses lists of different lengths (zip(..., strict=True)).
RECURSIVE PairLines_Strict(_, _, _)
PairLines_Strict(method_name, inputs, outputs) ==
    IF Len(inputs) # Len(outputs) THEN [ok |-> FALSE, lines |-> <<>>]
    ELSE IF inputs = <<>> THEN [ok |-> TRUE, lines |-> <<>>]
    ELSE LET d == Utf8Decode(Head(inputs)) IN
         IF ~d.ok THEN [ok |-> FALSE, lines |-> <<>>]
         ELSE LET rest == PairLines_Strict(method_name, Tail(inputs),
                                           Tail(outputs))
              IN [ok |-> rest.ok,
                  lines |-> <<PairLine(method_name, d.val, Head(outputs))>>
                                \o rest.lines]

\* The loop over zip(inputs, outputs): the lines printed, and whether the
\* loop ended without a decoding error.
RECURSIVE PairLines(_, _, _)
PairLines(method_name, inputs, outputs) ==
    IF inputs = <<>> \/ outputs = <<>> THEN [ok |-> TRUE, lines |-> <<>>]
    ELSE LET d == Utf8Decode(Head(inputs)) IN
         IF ~d.ok THEN [ok |-> FALSE, lines |-> <<>>]
         ELSE LET rest == PairLines(method_name, Tail(inputs), Tail(outputs))
              IN [ok |-> rest.ok,
                  lines |-> <<PairLine(method_name, d.val, Head(outputs))>>
                                \o rest.lines]

\* What a call of the reporter did: the lines it printed, the exception it
\* raised if any, and the store commands it sent, in order.
Printed(l, e, c) == [ok |-> e = "none", lines |-> l, exc |-> e, cmds |-> c]

\* What the reporter is given: the bound methods save and retrieve of a
\* facade, a plain function (Cache.save taken from the class, no __self__),
\* and a bound method of an object that has no _redis_instance.
ReportTargets == {"save", "retrieve", "plain_function", "no_connection"}

\* The method name behind a target.
TargetName(fn) == IF fn = "retrieve" THEN "retrieve" ELSE "save"

\* fn and hasattr(fn, '__self__')
HasSelf(fn) == fn # "plain_function"

\* isinstance(getattr(fn.__self__, '_redis_instance', None), redis.Redis)
HasRedis(fn) == fn \in {"save", "retrieve"}

\* The commands of the reporter once its target is accepted:
\* EXISTS, GET when the counter exists, the two LRANGE after the first print.
CountCmds(present) == IF present THEN <<"EXISTS", "GET">> ELSE <<"EXISTS">>

\* A variant that goes on without the test of the store connection.
display_call_history_NoConnTest(s, fn) ==
    IF ~HasSelf(fn) THEN Printed(<<>>, "none", <<>>)
    ELSE
    LET name == TargetName(fn)
        method_name == QualName(name)
        present == RedisExists(s, KeyBytes(method_name))
        got == RedisGet(s, KeyBytes(method_name))
        parsed == IF got.ok /\ got.val.t = "bytes" THEN ParseInt(got.val.v)
                  ELSE [ok |-> FALSE, val |-> 0]
        call_count == IF present THEN parsed.val ELSE 0
        inputs == RedisLrange(s, KeyBytes(InputKey(name)))
        outputs == RedisLrange(s, KeyBytes(OutputKey(name)))
        c1 == CountCmds(present)
    IN IF present /\ ~got.ok THEN Printed(<<>>, got.exc, c1)
       ELSE IF present /\ ~parsed.ok THEN Printed(<<>>, "ValueError", c1)
       ELSE LET header == <<HeaderLine(method_name, call_count)>> IN
            IF ~inputs.ok THEN Printed(header, inputs.exc, c1 \o <<"LRANGE">>)
            ELSE IF ~outputs.ok
            THEN Printed(header, outputs.exc, c1 \o <<"LRANGE", "LRANGE">>)
            ELSE LET body == PairLines(method_name, inputs.val, outputs.val)
                 IN Printed(header \o body.lines,
                            IF body.ok THEN "none" ELSE "UnicodeDecodeError",
                            c1 \o <<"LRANGE", "LRANGE">>)

\* display_call_history(fn): nothing for a target without __self__ or without
\* a Redis connection behind it; else the count, the header, the pairs.
display_call_history(s, fn) ==
    IF ~HasSelf(fn) THEN Printed(<<>>, "none", <<>>)
    ELSE IF ~HasRedis(fn) THEN Printed(<<>>, "none", <<>>)
    ELSE
    LET name == TargetName(fn)
        method_name == QualName(name)
        present == RedisExists(s, KeyBytes(method_name))
        got == RedisGet(s, KeyBytes(method_name))
        parsed == IF got.ok /\ got.val.t = "bytes" THEN ParseInt(got.val.v)
                  ELSE [ok |-> FALSE, val |-> 0]
        call_count == IF present THEN parsed.val ELSE 0
        inputs == RedisLrange(s, KeyBytes(InputKey(name)))
        outputs == RedisLrange(s, KeyBytes(OutputKey(name)))
        c1 == CountCmds(present)
    IN IF present /\ ~got.ok THEN Printed(<<>>, got.exc, c1)
       ELSE IF present /\ ~parsed.ok THEN Printed(<<>>, "ValueError", c1)
       ELSE LET header == <<HeaderLine(method_name, call_count)>> IN
            IF ~inputs.ok THEN Printed(header, inputs.exc, c1 \o <<"LRANGE">>)
            ELSE IF ~outputs.ok
            THEN Printed(header, outputs.exc, c1 \o <<"LRANGE", "LRANGE">>)
            ELSE LET body == PairLines(method_name, inputs.val, outputs.val)
                 IN Printed(header \o body.lines,
                            IF body.ok THEN "none" ELSE "UnicodeDecodeError",
                            c1 \o <<"LRANGE", "LRANGE">>)

(***************************************************************************)
(* State and actions                                                       *)
(*   store   the Redis database                                            *)
(*   issued  the values uuid4 has returned so far                          *)
(*   calls   the save calls of the run, in call order: data and outcome    *)
(*   epoch   the number of save calls made before the last construction    *)
(*   ret     the last call: operation, argument, result or exception       *)
(*   out     the lines the last call printed                               *)
(*   values  the data this run's callers pass to save                      *)
(*   threads the callers that run save command by command, and how far    *)
(*           each has got; none where every call is one step               *)
(*   lost    the save calls that ended after INCR and before the RPUSH to  *)
(*           the outputs, by an exception or by the death of the caller    *)
(***************************************************************************)

Outcome(op, arg, r) ==
    [op |-> op, arg |-> arg, ok |-> r.ok, val |-> r.val, exc |-> r.exc]

\* No caller is inside a save call: every call is one step.
NoThreads == [c \in {} |-> 0]

Init ==
    /\ store = EmptyStore
    /\ issued = {}
    /\ calls = <<>>
    /\ epoch = 0
    /\ ret = Outcome("init", PyNone, Return(EmptyStore, PyNone))
    /\ out = <<>>
    /\ values \in Universes
    /\ threads = NoThreads
    /\ lost = {}

\* Cache(): a connection, and FLUSHDB.
CacheInit ==
    /\ store' = RedisFlushdb(store)
    /\ epoch' = Len(calls)
    /\ ret' = Outcome("init", PyNone, Return(store', PyNone))
    /\ out' = <<>>
    /\ UNCHANGED <<issued, calls, values, threads, lost>>

\* cache.save(data), the whole decorated call.  uuid4 returns a value it has
\* not returned before (any of them); the call fails at the store call `fail`.
CallSave ==
    /\ Len(calls) < MaxCalls
    /\ \E data \in values, u \in Uuids \ issued, fail \in FailPoints :
         \E r \in {log_call_details(store, <<data>>, u, fail)} :
         /\ store' = r.store
         /\ issued' = IF ReachesUuid4(fail) THEN issued \cup {u} ELSE issued
         /\ calls' = Append(calls, [data |-> data, ok |-> r.ok, val |-> r.val])
         /\ ret' = Outcome("save", data, r)
         /\ out' = <<>>
         /\ UNCHANGED <<epoch, values, threads, lost>>

\* cache.retrieve(key)
CallRetrieve ==
    /\ \E key \in ReadKeys(calls) :
         \E r \in {retrieve(store, key, "none")} :
         /\ store' = r.store
         /\ ret' = Outcome("retrieve", PyStr(key), r)
    /\ out' = <<>>
    /\ UNCHANGED <<issued, calls, epoch, values, threads, lost>>

\* cache.retrieve_str(key)
CallRetrieveStr ==
    /\ \E key \in ReadKeys(calls) :
         \E r \in {retrieve_str(store, key)} :
         /\ store' = r.store
         /\ ret' = Outcome("retrieve_str", PyStr(key), r)
    /\ out' = <<>>
    /\ UNCHANGED <<issued, calls, epoch, values, threads, lost>>

\* cache.retrieve_int(key)
CallRetrieveInt ==
    /\ \E key \in ReadKeys(calls) :
         \E r \in {retrieve_int(store, key)} :
         /\ store' = r.store
         /\ ret' = Outcome("retrieve_int", PyStr(key), r)
    /\ out' = <<>>
    /\ UNCHANGED <<issued, calls, epoch, values, threads, lost>>

\* The argument of a reporter call as the log of calls shows it: the
\* qualified name for a bound method of a facade, the kind of target else.
TargetArg(fn) ==
    IF HasSelf(fn) /\ HasRedis(fn) THEN PyStr(QualName(fn))
    ELSE [t |-> fn, v |-> 0]

\* display_call_history(fn)
CallReport ==
    /\ \E fn \in ReportTargets :
         \E p \in {display_call_history(store, fn)} :
         /\ out' = p.lines
         /\ ret' = [op |-> "report", arg |-> TargetArg(fn),
                    ok |-> p.ok, val |-> PyNone, exc |-> p.exc]
    /\ UNCHANGED <<store, issued, calls, epoch, values, threads, lost>>

Next ==
    \/ CacheInit
    \/ CallSave
    \/ CallRetrieve
    \/ CallRetrieveStr
    \/ CallRetrieveInt
    \/ CallReport

Spec == Init /\ [][Next]_vars

(***************************************************************************)
(* What the claims speak of                                                *)
(***************************************************************************)

\* The save calls made since the last facade construction.
Since == SubSeq(calls, epoch + 1, Len(calls))

\* Every save call since the last construction returned normally.
AllSucceeded == \A i \in 1..Len(Since) : Since[i].ok

\* The counter 'Cache.save' as a number, a missing counter being zero.
CounterValue ==
    IF CounterKey \in DOMAIN store THEN ParseInt(store[CounterKey].val).val
    ELSE 0

\* The lists 'Cache.save:inputs' and 'Cache.save:outputs', empty when missing.
Inputs == IF InputsKey \in DOMAIN store THEN store[InputsKey].val ELSE <<>>
Outputs == IF OutputsKey \in DOMAIN store THEN store[OutputsKey].val ELSE <<>>

Min(a, b) == IF a < b THEN a ELSE b

Foo == PyStr(<<102, 111, 111>>)

\* The bytes of each value of the model, written out:
\* b"foo", b"", b"\xc3\xa9", b"\xff", b"0", b"-5", b"1.5".
ByteForm(v) ==
    CASE v = Foo -> <<102, 111, 111>>
      [] v = PyStr(<<>>) -> <<>>
      [] v = PyStr(<<233>>) -> <<195, 169>>
      [] v = PyBytes(<<255>>) -> <<255>>
      [] v = PyInt(0) -> <<48>>
      [] v = PyInt(-5) -> <<45, 53>>
      [] v = PyFloat(3) -> <<49, 46, 53>>

\* The text str(args) of a save call with each value of the model:
\* ('foo',)  ('',)  ('e-acute',)  (b'\xff',)  (0,)  (-5,)  (1.5,)  (None,)
ArgsForm(v) ==
    CASE v = Foo -> <<40, 39, 102, 111, 111, 39, 44, 41>>
      [] v = PyStr(<<>>) -> <<40, 39, 39, 44, 41>>
      [] v = PyStr(<<233>>) -> <<40, 39, 195, 169, 39, 44, 41>>
      [] v = PyBytes(<<255>>) -> <<40, 98, 39, 92, 120, 102, 102, 39, 44, 41>>
      [] v = PyInt(0) -> <<40, 48, 44, 41>>
      [] v = PyInt(-5) -> <<40, 45, 53, 44, 41>>
      [] v = PyFloat(3) -> <<40, 49, 46, 53, 44, 41>>
      [] v = PyNone -> <<40, 78, 111, 110, 101, 44, 41>>

SaveTarget == PyStr(QualName("save"))

(***************************************************************************)
(* Claims                                                                  *)
(***************************************************************************)

\* C1: when every save call since the facade was constructed returned
\* normally, and there were N of them, the counter 'Cache.save' is N and
\* the lists 'Cache.save:inputs' and 'Cache.save:outputs' each hold N entries.
C1_CountsEqualCalls ==
    AllSucceeded =>
        /\ CounterValue = Len(Since)
        /\ Len(Inputs) = Len(Since)
        /\ Len(Outputs) = Len(Since)
        /\ (Len(Since) > 0 => CounterKey \in DOMAIN store)

C1_Witness ==
    /\ AllSucceeded
    /\ Len(Since) = MaxCalls
    /\ CounterValue = MaxCalls

\* C2: after successful save calls the i-th entry of 'Cache.save:inputs' is
\* the text of the argument tuple of the i-th call and the i-th entry of
\* 'Cache.save:outputs' is the key that call returned, the key its data is
\* stored under.
C2_HistoryInCallOrder ==
    AllSucceeded =>
        /\ Len(Inputs) = Len(Since)
        /\ Len(Outputs) = Len(Since)
        /\ \A i \in 1..Len(Since) :
             /\ Inputs[i] = ArgsForm(Since[i].data)
             /\ Since[i].val.t = "str"
             /\ Outputs[i] = Utf8Encode(Since[i].val.v)
             /\ Outputs[i] \in DOMAIN store
             /\ store[Outputs[i]] = StringEntry(ByteForm(Since[i].data))

C2_Witness ==
    /\ AllSucceeded
    /\ Len(Since) = 2
    /\ Since[1].data # Since[2].data
    /\ Len(Outputs) = 2

\* C3: retrieve without a transform, on a key that a save call returned
\* since the last facade construction, returns the bytes of the data saved.
C3_RetrieveReturnsBytes ==
    \A i \in 1..Len(Since) :
        (ret.op = "retrieve" /\ Since[i].ok /\ ret.arg = Since[i].val)
            => (ret.ok /\ ret.val = PyBytes(ByteForm(Since[i].data)))

C3_Witness ==
    /\ ret.op = "retrieve"
    /\ \E i \in 1..Len(Since) :
         /\ Since[i].ok
         /\ ret.arg = Since[i].val
         /\ Since[i].data = PyFloat(3)
         /\ Len(Since) > i

\* C4 as stated: retrieve_str on a key that a save call returned for a
\* string s returns s, whenever it is called.
C4_Original ==
    \A i \in 1..Len(calls) :
        (/\ ret.op = "retrieve_str"
         /\ calls[i].ok
         /\ calls[i].data.t = "str"
         /\ ret.arg = calls[i].val)
            => (ret.ok /\ ret.val = calls[i].data)

\* C4: retrieve_str on a key that a save call returned for a string s returns
\* s, provided no facade was constructed between the save and the read.
C4_RetrieveStrRoundTrip ==
    \A i \in 1..Len(Since) :
        (/\ ret.op = "retrieve_str"
         /\ Since[i].ok
         /\ Since[i].data.t = "str"
         /\ ret.arg = Since[i].val)
            => (ret.ok /\ ret.val = Since[i].data)

C4_Witness ==
    /\ ret.op = "retrieve_str"
    /\ ret.ok
    /\ \E i \in 1..Len(Since) :
         Since[i].ok /\ ret.arg = Since[i].val /\ Since[i].data = PyStr(<<>>)

\* C5 as stated: retrieve_int on a key that a save call returned for an
\* integer n returns n, whenever it is called.
C5_Original ==
    \A i \in 1..Len(calls) :
        (/\ ret.op = "retrieve_int"
         /\ calls[i].ok
         /\ calls[i].data.t = "int"
         /\ ret.arg = calls[i].val)
            => (ret.ok /\ ret.val = calls[i].data)

\* C5: retrieve_int on a key that a save call returned for an integer n
\* returns n, provided no facade was constructed between the save and the
\* read.
C5_RetrieveIntRoundTrip ==
    \A i \in 1..Len(Since) :
        (/\ ret.op = "retrieve_int"
         /\ Since[i].ok
         /\ Since[i].data.t = "int"
         /\ ret.arg = Since[i].val)
            => (ret.ok /\ ret.val = Since[i].data)

C5_Witness ==
    /\ ret.op = "retrieve_int"
    /\ ret.val = PyInt(-5)
    /\ \E i \in 1..Len(Since) :
         Since[i].ok /\ ret.arg = Since[i].val /\ Since[i].data = PyInt(-5)

\* C6: retrieve without a transform on a key the store does not hold returns
\* None and raises nothing, whatever else the store holds.
C6_MissingKeyReturnsNone ==
    (ret.op = "retrieve" /\ KeyBytes(ret.arg.v) \notin DOMAIN store)
        => (ret.ok /\ ret.val = PyNone /\ ret.exc = "none")

C6_Witness ==
    /\ ret.op = "retrieve"
    /\ KeyBytes(ret.arg.v) \notin DOMAIN store
    /\ ret.arg.v = NonexistentKey
    /\ Len(Outputs) > 0

\* C7: constructing a facade empties the store: right after it no key is
\* left, and from then on every key a save call returned before it is absent
\* and retrieve returns None for it; the counter and the two history lists
\* written before it are gone until the next save call.
C7_ConstructionFlushes ==
    /\ ret.op = "init" => DOMAIN store = {}
    /\ \A i \in 1..epoch :
         calls[i].ok =>
            /\ KeyBytes(calls[i].val.v) \notin DOMAIN store
            /\ (ret.op = "retrieve" /\ ret.arg = calls[i].val)
                  => (ret.ok /\ ret.val = PyNone)
    /\ Len(calls) = epoch =>
         {CounterKey, InputsKey, OutputsKey} \cap DOMAIN store = {}

C7_Witness ==
    /\ epoch > 0
    /\ ret.op = "retrieve"
    /\ \E i \in 1..epoch : calls[i].ok /\ ret.arg = calls[i].val

\* C8: a save call that returns, returns a key no earlier save call returned
\* and the store did not hold, and leaves what retrieve returns for every
\* earlier key as it was.
C8_FreshKey ==
    [][(ret'.op = "save" /\ ret'.ok /\ Len(calls') = Len(calls) + 1) =>
          /\ KeyBytes(ret'.val.v) \notin DOMAIN store
          /\ \A i \in 1..Len(calls) :
               calls[i].ok =>
                  /\ calls[i].val # ret'.val
                  /\ retrieve(store', calls[i].val.v, "none").val
                       = retrieve(store, calls[i].val.v, "none").val]_vars

C8_Witness ==
    /\ ret.op = "save"
    /\ ret.ok
    /\ epoch = 0
    /\ Len(calls) = 2
    /\ calls[1].ok
    /\ calls[1].val # calls[2].val
    /\ retrieve(store, calls[1].val.v, "none").val
         = PyBytes(ByteForm(calls[1].data))

\* "Cache.save was called 1 times:"
CalledOnceLine ==
    <<67, 97, 99, 104, 101, 46, 115, 97, 118, 101, 32, 119, 97, 115, 32, 99,
      97, 108, 108, 101, 100, 32, 49, 32, 116, 105, 109, 101, 115, 58>>

\* "Cache.save(*('foo',)) -> b'"
FooLineStart ==
    <<67, 97, 99, 104, 101, 46, 115, 97, 118, 101, 40, 42, 40, 39, 102, 111,
      111, 39, 44, 41, 41, 32, 45, 62, 32, 98, 39>>

\* The reporter has just run on save, after one save("foo") that returned
\* and no other save call since the facade was constructed.
ReportedOneFoo ==
    /\ ret.op = "report"
    /\ ret.arg = SaveTarget
    /\ Len(Since) = 1
    /\ Since[1].ok
    /\ Since[1].data = Foo

\* C9 as stated: the reporter then prints "Cache.save was called 1 times:"
\* and "Cache.save(*('foo',)) -> b'foo'".
C9_Original ==
    ReportedOneFoo =>
        out = <<CalledOnceLine, FooLineStart \o <<102, 111, 111, 39>>>>

\* C9: the reporter then prints "Cache.save was called 1 times:" and
\* "Cache.save(*('foo',)) -> b'<key>'", <key> being the key save returned.
C9_PrintsReturnedKey ==
    ReportedOneFoo =>
        out = <<CalledOnceLine, FooLineStart \o Since[1].val.v \o <<39>>>>

C9_Witness == ReportedOneFoo /\ Len(out) = 2

\* C10: the reporter prints, after its first line, one line for each
\* position that both history lists have, the j-th line made of the j-th
\* input and the j-th output, and raises nothing when one list is longer.
C10_PairsUpToShorter ==
    (ret.op = "report" /\ ret.arg = SaveTarget) =>
        /\ ret.ok
        /\ Len(out) = 1 + Min(Len(Inputs), Len(Outputs))
        /\ \A j \in 1..Min(Len(Inputs), Len(Outputs)) :
             out[j + 1] = QualName("save") \o <<40, 42>> \o Utf8Decode(Inputs[j]).val
                            \o <<41, 32, 45, 62, 32>> \o BytesRepr(Outputs[j])

C10_Witness ==
    /\ ret.op = "report"
    /\ ret.arg = SaveTarget
    /\ Len(Inputs) = 2
    /\ Len(Outputs) = 1
    /\ Len(out) = 2

\* The targets display_call_history turns away.
InvalidTargets == {fn \in ReportTargets : ~(HasSelf(fn) /\ HasRedis(fn))}

\* C11: given a target that is not a bound method, or one whose owner has no
\* valid store connection, the reporter returns without output and without
\* error, and sends no command, read or write, to the store.
C11_InvalidTargetIsSilent ==
    [][(ret'.op = "report" /\ ret'.arg.t \in InvalidTargets) =>
          /\ out' = <<>>
          /\ ret'.ok
          /\ ret'.exc = "none"
          /\ store' = store
          /\ display_call_history(store, ret'.arg.t).cmds = <<>>]_vars

C11_Witness ==
    /\ ret.op = "report"
    /\ ret.arg.t = "no_connection"
    /\ out = <<>>
    /\ CounterValue >= 1
    /\ Len(Inputs) >= 1

(***************************************************************************)
(* The decorated save, one store command at a time                         *)
(*                                                                         *)
(* A caller in `threads` runs save as the wrappers run it: each command    *)
(* that the call sends to the store is one step, and steps of the other    *)
(* caller, an exception of the store or the death of the caller can come   *)
(* between two of them.                                                    *)
(***************************************************************************)

\* A variant that logs the output before the method is called.
SaveSteps_OutputFirst == <<"rpush_inputs", "rpush_outputs", "incr", "set">>

\* A variant with the decorators in the other order, track_calls outermost.
SaveSteps_CountOutermost == <<"incr", "rpush_inputs", "set", "rpush_outputs">>

\* A variant that logs the input after the method has returned.
SaveSteps_LogAfterCall == <<"incr", "set", "rpush_inputs", "rpush_outputs">>

\* A variant that counts the call after its result is logged.
SaveSteps_CountLast == <<"rpush_inputs", "set", "rpush_outputs", "incr">>

\* The store commands of one call of the decorated save, in program order:
\* RPUSH to the inputs (line 33), INCR (line 19), SET (line 78), RPUSH to
\* the outputs (line 36).
SaveSteps == <<"rpush_inputs", "incr", "set", "rpush_outputs">>

\* A caller that is in no call.  In a call: the data passed, the number pc
\* of commands done, the uuid4 value once drawn, and the lengths of the two
\* history lists when the call began.
IdleThread ==
    [active |-> FALSE, pc |-> 0, data |-> PyNone, u |-> 0,
     in0 |-> 0, out0 |-> 0]

\* The commands a call has done, and the one it sends next.
Done(th) == {SaveSteps[i] : i \in 1..th.pc}
NextOp(th) == SaveSteps[th.pc + 1]

\* A call under way that has sent a command to the store.
MidCall(th) == th.active /\ th.pc >= 1

\* One command of the call of thread th, on store s; u is what uuid4 returns.
Exec(op, s, th, u) ==
    CASE op = "rpush_inputs" ->
           RedisRpush(s, InputsKey, PyStr(StrOfArgs(<<th.data>>)))
      [] op = "incr" -> RedisIncr(s, CounterKey)
      [] op = "set" -> save(s, th.data, u, "none")
      [] op = "rpush_outputs" ->
           RedisRpush(s, OutputsKey, PyStr(UuidStr(th.u)))

\* The call of caller c ends: th is its thread at that moment, and the call
\* returned val (ok) or raised exc, "killed" standing for a caller that died.
\* A call that ends between INCR and the RPUSH to the outputs is lost.
EndCall(c, th, ok, val, exc) ==
    /\ threads' = [threads EXCEPT ![c] = IdleThread]
    /\ calls' = Append(calls, [data |-> th.data, ok |-> ok, val |-> val])
    /\ ret' = [op |-> "save", arg |-> th.data, ok |-> ok, val |-> val,
               exc |-> exc]
    /\ lost' = IF "incr" \in Done(th) /\ "rpush_outputs" \notin Done(th)
               THEN lost \cup {[call |-> Len(calls) + 1, how |-> exc]}
               ELSE lost

\* The initial states: one caller, and two callers, of one facade.
InitSeq ==
    /\ store = EmptyStore
    /\ issued = {}
    /\ calls = <<>>
    /\ epoch = 0
    /\ ret = Outcome("init", PyNone, Return(EmptyStore, PyNone))
    /\ out = <<>>
    /\ values \in Universes
    /\ threads = [c \in {"A"} |-> IdleThread]
    /\ lost = {}

InitConc ==
    /\ store = EmptyStore
    /\ issued = {}
    /\ calls = <<>>
    /\ epoch = 0
    /\ ret = Outcome("init", PyNone, Return(EmptyStore, PyNone))
    /\ out = <<>>
    /\ values \in Universes
    /\ threads = [c \in {"A", "B"} |-> IdleThread]
    /\ lost = {}

\* The number of calls under way.
Active == Cardinality({c \in DOMAIN threads : threads[c].active})

\* cache.save(data) is called: the wrapper of log_call_details is entered.
CallSaveBegin(c) ==
    /\ ~threads[c].active
    /\ Len(calls) + Active < MaxCalls
    /\ \E data \in values :
         threads' = [threads EXCEPT ![c] =
                       [active |-> TRUE, pc |-> 0, data |-> data, u |-> 0,
                        in0 |-> Len(Inputs), out0 |-> Len(Outputs)]]
    /\ UNCHANGED <<store, issued, calls, epoch, ret, out, values, lost>>

\* The call of c sends its next command, op.  When the command raises, the
\* call ends with the exception; after the last command the call returns
\* the key.
StepCmd(c, op) ==
    /\ NextOp(threads[c]) = op
    /\ \E u \in (IF op = "set" THEN Uuids \ issued ELSE {threads[c].u}) :
         \E r \in {Exec(op, store, threads[c], u)} :
         \E th \in {[threads[c] EXCEPT !.pc = @ + 1, !.u = u]} :
           /\ store' = r.store
           /\ issued' = IF op = "set" THEN issued \cup {u} ELSE issued
           /\ IF ~r.ok
              THEN EndCall(c, threads[c], FALSE, PyNone, r.exc)
              ELSE IF th.pc = Len(SaveSteps)
              THEN EndCall(c, th, TRUE, PyStr(UuidStr(th.u)), "none")
              ELSE /\ threads' = [threads EXCEPT ![c] = th]
                   /\ UNCHANGED <<calls, ret, lost>>
    /\ UNCHANGED <<epoch, out, values>>

\* log_call_details.wrapper: redis_instance.rpush(input_key, str(args))
StepRpushInputs(c) ==
    /\ threads[c].active
    /\ StepCmd(c, "rpush_inputs")

\* track_calls.wrapper: self._redis_instance.incr(method.__qualname__)
StepIncr(c) ==
    /\ threads[c].active
    /\ StepCmd(c, "incr")

\* Cache.save: uuid4, self._redis_instance.set(key, data)
StepSet(c) ==
    /\ threads[c].active
    /\ StepCmd(c, "set")

\* log_call_details.wrapper: redis_instance.rpush(output_key, result), and
\* the return of the result.
StepRpushOutputs(c) ==
    /\ threads[c].active
    /\ StepCmd(c, "rpush_outputs")

\* The connection fails at the next command of c, one of FailPoints: the
\* command raises and nothing catches it.  uuid4 is drawn before SET is sent.
StepRaise(c) ==
    /\ threads[c].active
    /\ NextOp(threads[c]) \in FailPoints \ {"none"}
    /\ \E r \in {ConnectionFails(store)} :
         /\ store' = r.store
         /\ EndCall(c, threads[c], FALSE, PyNone, r.exc)
    /\ \E u \in Uuids \ issued :
         issued' = IF ReachesUuid4(NextOp(threads[c])) /\ threads[c].u = 0
                   THEN issued \cup {u} ELSE issued
    /\ UNCHANGED <<epoch, out, values>>

\* The caller dies between two commands of its call.
Crash(c) ==
    /\ MidCall(threads[c])
    /\ EndCall(c, threads[c], FALSE, PyNone, "killed")
    /\ UNCHANGED <<store, issued, epoch, out, values>>

\* Cache() while no call is under way.
ConstructBetweenCalls ==
    /\ Active = 0
    /\ store' = RedisFlushdb(store)
    /\ epoch' = Len(calls)
    /\ ret' = Outcome("init", PyNone, Return(EmptyStore, PyNone))
    /\ out' = <<>>
    /\ UNCHANGED <<issued, calls, values, threads, lost>>

\* What caller c does next.
CallerStep(c) ==
    \/ CallSaveBegin(c)
    \/ StepRpushInputs(c)
    \/ StepIncr(c)
    \/ StepSet(c)
    \/ StepRpushOutputs(c)
    \/ StepRaise(c)
    \/ Crash(c)

NextSeq ==
    \/ ConstructBetweenCalls
    \/ \E c \in {"A"} : CallerStep(c)

NextConc ==
    \/ ConstructBetweenCalls
    \/ \E c \in {"A", "B"} : CallerStep(c)

\* One caller; a facade is constructed between calls only.
SpecSeq == InitSeq /\ [][NextSeq]_vars

\* Two callers of one facade, their commands interleaved; a facade is
\* constructed between calls only.
SpecConc == InitConc /\ [][NextConc]_vars

\* C12: in every save call the input entry is appended before the method is
\* invoked and the output entry only after it has returned; when the
\* invocation fails (INCR or SET raises), the exception reaches the caller,
\* no output entry is added, and the input list is left one entry longer,
\* relative to the output list, than it was when the call began.
C12_InputBeforeOutputAfter ==
    [][\A c \in DOMAIN threads :
         LET th == threads[c]
             after == threads'[c]
         IN /\ (after.active /\ after.pc = 0) =>
                  /\ Len(Inputs') = after.in0
                  /\ Len(Outputs') = after.out0
            /\ (after.active /\ after.pc \in {1, 2, 3}) =>
                  /\ Len(Inputs') = after.in0 + 1
                  /\ Inputs'[after.in0 + 1] =
                        Utf8Encode(StrOfArgs(<<after.data>>))
                  /\ Len(Outputs') = after.out0
            /\ (th.active /\ th.pc = 3 /\ ~after.active /\ ret'.ok) =>
                  /\ Len(Inputs') = th.in0 + 1
                  /\ Len(Outputs') = th.out0 + 1
            /\ (th.active /\ th.pc \in {1, 2} /\ ~after.active
                  /\ ret'.exc # "killed") =>
                  /\ ret'.op = "save"
                  /\ ~ret'.ok
                  /\ ret'.exc \in {"ConnectionError", "DataError"}
                  /\ Len(calls') = Len(calls) + 1
                  /\ ~calls'[Len(calls')].ok
                  /\ Len(Outputs') = th.out0
                  /\ Len(Inputs') = th.in0 + 1
                  /\ Len(Inputs') - Len(Outputs') = (th.in0 - th.out0) + 1]_vars

\* A second call that failed at INCR after a first one that returned.
C12_Witness ==
    /\ DOMAIN threads = {"A"}
    /\ ~threads["A"].active
    /\ ret.op = "save"
    /\ ret.exc = "ConnectionError"
    /\ Len(Inputs) = 2
    /\ Len(Outputs) = 1
    /\ CounterValue = 1

\* The keys of the store that hold data: all but the counter and the lists.
DataKeys(s) == DOMAIN s \ {CounterKey, InputsKey, OutputsKey}

\* The counter is as it was: absent, or the same bytes.
SameCounter ==
    /\ (CounterKey \in DOMAIN store') = (CounterKey \in DOMAIN store)
    /\ CounterKey \in DOMAIN store => store'[CounterKey] = store[CounterKey]

\* C13: a save call that returns has sent its store commands in this order:
\* the append to the inputs, the increment of the counter, the write of the
\* data under a fresh key, the append of that key to the outputs; each
\* changes nothing else, so the counter is incremented once for each call
\* and before the write.
C13_CommandOrder ==
    [][\A c \in {x \in DOMAIN threads : threads'[x] # threads[x]} :
         LET th == threads[c]
             after == threads'[c]
             returned == th.active /\ ~after.active /\ ret'.ok
             key == KeyBytes(UuidStr(after.u))
         IN /\ returned =>
                  /\ th.pc = 3
                  /\ ret'.val = PyStr(UuidStr(th.u))
                  /\ Outputs' = Append(Outputs, KeyBytes(UuidStr(th.u)))
                  /\ Inputs' = Inputs
                  /\ SameCounter
                  /\ DataKeys(store') = DataKeys(store)
            /\ (th.active /\ after.active /\ after.pc # th.pc) =>
                  /\ after.pc = th.pc + 1
                  /\ th.pc = 0 =>
                       /\ Inputs' = Append(Inputs,
                                       Utf8Encode(StrOfArgs(<<th.data>>)))
                       /\ SameCounter
                       /\ DataKeys(store') = DataKeys(store)
                       /\ Outputs' = Outputs
                  /\ th.pc = 1 =>
                       /\ Inputs' = Inputs
                       /\ CounterValue' = CounterValue + 1
                       /\ DataKeys(store') = DataKeys(store)
                       /\ Outputs' = Outputs
                  /\ th.pc = 2 =>
                       /\ Inputs' = Inputs
                       /\ SameCounter
                       /\ key \notin DataKeys(store)
                       /\ DataKeys(store') = DataKeys(store) \cup {key}
                       /\ Outputs' = Outputs
                  /\ th.pc < 3]_vars

\* Two calls have returned, each after its four commands.
C13_Witness ==
    /\ ret.op = "save"
    /\ ret.ok
    /\ Len(calls) = 2
    /\ calls[1].ok
    /\ \A c \in DOMAIN threads : ~threads[c].active
    /\ CounterValue = 2
    /\ Cardinality(DataKeys(store)) = 2
    /\ Len(Outputs) = 2

\* The calls whose caller died between INCR and the RPUSH to the outputs,
\* in the whole run and since the last construction of a facade.
Killed == {l \in lost : l.how = "killed"}
KilledSince == {l \in Killed : l.call > epoch}
LostSince == {l \in lost : l.call > epoch}

\* The calls under way that have sent INCR and not yet the RPUSH to the
\* outputs.
Counted ==
    {c \in DOMAIN threads :
       /\ threads[c].active
       /\ "incr" \in Done(threads[c])
       /\ "rpush_outputs" \notin Done(threads[c])}

\* C14 as stated: once a caller has died between the increment and the
\* append to the outputs, the counter differs from the length of the outputs
\* in every later state.
C14_Original == Killed # {} => CounterValue # Len(Outputs)

\* C14: the increment and the appends are separate commands.  Once a caller
\* has died between the increment and the append to the outputs, the counter
\* exceeds the length of the outputs in every later state until a facade is
\* constructed: each lost call counts one more than the outputs hold.
C14_CrashLeavesGap ==
    /\ KilledSince # {} => CounterValue > Len(Outputs)
    /\ CounterValue =
         Len(Outputs) + Cardinality(LostSince) + Cardinality(Counted)

\* A caller died after INCR, and a later call has returned.
C14_Witness ==
    /\ KilledSince # {}
    /\ \A c \in DOMAIN threads : ~threads[c].active
    /\ ret.op = "save"
    /\ ret.ok
    /\ CounterValue = 2
    /\ Len(Outputs) = 1

\* C15: for a key the store does not hold, retrieve applies the transform to
\* None: retrieve_str raises AttributeError (None has no decode),
\* retrieve_int raises TypeError (int(None)); nothing catches the exception
\* and the store is as it was.
C15_MissingKeyTransformFails ==
    [][(/\ ret'.op \in {"retrieve_str", "retrieve_int"}
        /\ KeyBytes(ret'.arg.v) \notin DOMAIN store) =>
          /\ ~ret'.ok
          /\ ret'.val = PyNone
          /\ ret'.exc = IF ret'.op = "retrieve_str" THEN "AttributeError"
                        ELSE "TypeError"
          /\ store' = store]_vars

C15_Witness ==
    /\ ret.op = "retrieve_int"
    /\ ret.arg = PyStr(NonexistentKey)
    /\ ret.exc = "TypeError"
    /\ Cardinality(DOMAIN store) = 4

\* A step that is a save call, and one whose INCR the store carried out
\* (save draws its uuid4 only after INCR has returned).
SaveStep == Len(calls') = Len(calls) + 1
IncrDone == issued' # issued

\* The decimal notation of the values the counter takes in one run.
DecimalText == [n \in 1..(MaxCalls + 1) |-> Utf8Encode(IntRepr(n))]

\* The counter of store s is n: absent for 0, the decimal text of n else.
CounterIs(s, n) ==
    IF n = 0 THEN CounterKey \notin DOMAIN s
    ELSE CounterKey \in DOMAIN s /\ s[CounterKey] = StringEntry(DecimalText[n])

\* The step raises the counter by exactly one.
RaisedByOne ==
    \E n \in 0..MaxCalls : CounterIs(store, n) /\ CounterIs(store', n + 1)

\* C16 as stated: over construct, save, retrieve, retrieve_str, retrieve_int
\* and report the counter never decreases, and each save call (one whose
\* INCR the store carried out) raises it by exactly one.
C16_Original ==
    [][/\ SameCounter \/ RaisedByOne \/ CounterValue' >= CounterValue
       /\ (SaveStep /\ IncrDone) => RaisedByOne]_vars

\* C16: over save, retrieve, retrieve_str, retrieve_int and report the
\* counter never decreases; each save call raises it by exactly one, unless
\* the increment itself fails, which leaves it as it was; the reads and the
\* reporter leave it as it was; the construction of a facade sets it back
\* to absent, which counts as 0.
C16_CounterMonotonicBetweenConstructions ==
    [][/\ ret'.op # "init" =>
            (SameCounter \/ RaisedByOne \/ CounterValue' >= CounterValue)
       /\ ret'.op = "init" =>
            (CounterKey \notin DOMAIN store' /\ CounterValue' = 0)
       /\ (SaveStep /\ IncrDone) => RaisedByOne
       /\ (SaveStep /\ ~IncrDone) => SameCounter
       /\ (~SaveStep /\ ret'.op # "init") => SameCounter]_vars

\* The counter was 1, a construction set it back, a save raised it to 1.
C16_Witness ==
    /\ ret.op = "save"
    /\ ret.ok
    /\ Len(calls) = 2
    /\ calls[1].ok
    /\ epoch = 1
    /\ CounterValue = 1

\* C17: with one caller and no facade constructed inside a save call, every
\* reachable state of the store, those inside a save call and those left by
\* calls that failed or whose caller died included, has
\* len(outputs) <= counter <= len(inputs).
C17_OutputsCounterInputs ==
    /\ Len(Outputs) <= CounterValue
    /\ CounterValue <= Len(Inputs)

\* A lost call behind, a call under way that has logged its input only.
C17_Witness ==
    /\ LostSince # {}
    /\ \E c \in DOMAIN threads : threads[c].active /\ threads[c].pc = 1
    /\ Len(Outputs) = 0
    /\ CounterValue = 1
    /\ Len(Inputs) = 2

\* The operations that only read.
ReadOps == {"retrieve", "retrieve_str", "retrieve_int", "report"}

\* The keys a counted and logged retrieve would write.
RetrieveKeys ==
    {KeyBytes(QualName("retrieve")), KeyBytes(InputKey("retrieve")),
     KeyBytes(OutputKey("retrieve"))}

\* C18: retrieve, retrieve_str, retrieve_int and the reporter only read and
\* are not instrumented: whether they return or raise, the counter, both
\* lists and every data key are as before, no save call is recorded, and
\* the store holds no counter and no history of retrieve.
C18_ReadsChangeNothing ==
    [][ret'.op \in ReadOps =>
          /\ store' = store
          /\ calls' = calls
          /\ RetrieveKeys \cap DOMAIN store' = {}]_vars

\* retrieve_str has raised on stored bytes that are not UTF-8.
C18_Witness ==
    /\ ret.op = "retrieve_str"
    /\ ret.exc = "UnicodeDecodeError"
    /\ CounterValue = 1
    /\ Len(Outputs) = 1
    /\ Cardinality(DOMAIN store) = 4

\* Two save calls, and no other, have been made on the facade, both have
\* returned, and no call is under way.
BothReturned ==
    /\ \A c \in DOMAIN threads : ~threads[c].active
    /\ Len(Since) = 2
    /\ Since[1].ok
    /\ Since[2].ok

\* Position i of the histories pairs the key of one call with the input of
\* the other.
Mispaired(i) ==
    \E j \in 1..Len(Since) :
       /\ Outputs[i] = KeyBytes(Since[j].val.v)
       /\ Inputs[i] # Utf8Encode(StrOfArgs(<<Since[j].data>>))

\* C19: when two callers run save on one facade, their store commands
\* interleaved, then after both calls have returned the counter is 2 and
\* each history list has two entries, the inputs and the keys of the two
\* calls; the lists need not pair them: an interleaving is reachable
\* (C19_Witness) where the i-th output is the key of the call that did not
\* produce the i-th input.
C19_BothCounted ==
    BothReturned =>
        /\ CounterValue = 2
        /\ Len(Inputs) = 2
        /\ Len(Outputs) = 2
        /\ {Outputs[1], Outputs[2]} =
              {KeyBytes(Since[1].val.v), KeyBytes(Since[2].val.v)}
        /\ {Inputs[1], Inputs[2]} =
              {Utf8Encode(StrOfArgs(<<Since[1].data>>)),
               Utf8Encode(StrOfArgs(<<Since[2].data>>))}

\* Two callers, both calls returned, and the first position mispaired.
C19_Witness ==
    /\ DOMAIN threads = {"A", "B"}
    /\ BothReturned
    /\ Len(Inputs) = 2
    /\ Len(Outputs) = 2
    /\ Mispaired(1)
    /\ Mispaired(2)

====
